---- MODULE Spec2Model ----
(***************************************************************************)
(* bevy-event-set (src/src/lib.rs): the event_set! macro, the EventSet,    *)
(* AddEventSet and SendEvent traits, and the Bevy objects they forward to  *)
(* (the AppBuilder on which add_event::<T>() is called, the Events<T>      *)
(* buffers on which send is called).                                       *)
(*                                                                         *)
(* Two specifications:                                                     *)
(*   SpecGen  the build: event_set! invocations are expanded and compiled; *)
(*   Spec     a crate whose event sets compiled: the builder phase         *)
(*            (add_event_set), then systems that receive an event set and  *)
(*            send through it.                                             *)
(***************************************************************************)
EXTENDS Integers, Sequences, FiniteSets, TLC

VARIABLES
    phase,        \* "compile" | "build" (AppBuilder in use) | "run" (systems run)
    decl,         \* per set name: the event_set! invocation written for it
    crate,        \* per set name: what the build made of that invocation
    app,          \* the AppBuilder: the add_event::<T>() calls it received, in order
    added,        \* the add_event_set::<E>() calls made on the builder, in order
    ret,          \* the builder the last add_event_set call returned (its state)
    inst,         \* the event set the running system received, or NoInst
    held,         \* how many send calls were made through the event set held
    channels,     \* per event type: the Events<T> buffer (values sent, in order)
    sent          \* the values passed to SendEvent::send so far, in call order

vars == <<phase, decl, crate, app, added, ret, inst, held, channels, sent>>

(***************************************************************************)
(* Bounds of the model.                                                    *)
(***************************************************************************)
MaxMembers == 3       \* longest member list written in an invocation
MaxAdds == 2          \* add_event_set calls on the builder
MaxSends == 3         \* send calls in a run

(***************************************************************************)
(* Identifiers.  The event types and set names of the crate documentation  *)
(* (lib.rs 17-22) and of tests::single (lib.rs 124-125).                   *)
(***************************************************************************)
EventTypes == {"EventOne", "EventTwo", "EventThree"}
SetNames == {"MyEvents", "MyEvents2"}

\* struct EventOne; struct EventTwo; struct EventThree(usize);
FortyTwo == 42
Usizes == {7, FortyTwo}
Unit == 0
EventValues ==
    {[type |-> t, payload |-> Unit] : t \in {"EventOne", "EventTwo"}}
        \cup {[type |-> "EventThree", payload |-> p] : p \in Usizes}

(***************************************************************************)
(* Helpers on sequences.                                                   *)
(***************************************************************************)
Range(s) == {s[i] : i \in DOMAIN s}

HasDuplicate(s) == \E i, j \in DOMAIN s : i < j /\ s[i] = s[j]

Reverse(s) == [i \in DOMAIN s |-> s[Len(s) + 1 - i]]

\* s without the later occurrences of its elements
Distinct(s) == SelectSeq([i \in DOMAIN s |-> IF \E j \in 1..(i - 1) : s[j] = s[i]
                                              THEN "" ELSE s[i]],
                         LAMBDA x : x # "")

SeqsUpTo(S, n) == UNION {[1..k -> S] : k \in 0..n}

RECURSIVE SelectType(_, _)
SelectType(s, t) ==
    IF s = <<>> THEN <<>>
    ELSE IF s[1].type = t THEN <<s[1]>> \o SelectType(Tail(s), t)
    ELSE SelectType(Tail(s), t)

(***************************************************************************)
(* An event_set! invocation: `name { members [,] }`.  `members` are the    *)
(* identifiers matched by $event, `trailing` whether the optional final    *)
(* comma matched by $(,)? is written.                                      *)
(***************************************************************************)
NoDecl == [written |-> FALSE, members |-> <<>>, trailing |-> FALSE]
Decl(members, trailing) ==
    [written |-> TRUE, members |-> members, trailing |-> trailing]

MemberLists == SeqsUpTo(EventTypes, MaxMembers)

(***************************************************************************)
(* Items the macro emits (lib.rs 89-111).  `body` is: for the struct, its  *)
(* field names; for the EventSet impl, the types of the add_event calls of *)
(* apply, in order; for a SendEvent impl, the field send forwards to.      *)
(***************************************************************************)
StructItem(name, events) ==
    [item |-> "struct", name |-> name, event |-> "", body |-> events]

\* Faulty variant: apply registers the members last to first.
EventSetImplReversed(name, events) ==
    [item |-> "EventSet", name |-> name, event |-> "", body |-> Reverse(events)]

EventSetImpl(name, events) ==
    [item |-> "EventSet", name |-> name, event |-> "", body |-> events]

SendEventImpl(name, event) ==
    [item |-> "SendEvent", name |-> name, event |-> event, body |-> <<event>>]

\* `$event: ResMut<'a, Events<$event>>`: the field named f borrows Events<f>.
FieldType(f) == f

\* Faulty variant: a repeated identifier is emitted once.
ExpandDistinct(name, events) ==
    <<StructItem(name, Distinct(events)), EventSetImpl(name, Distinct(events))>>
        \o [i \in 1..Len(Distinct(events)) |-> SendEventImpl(name, Distinct(events)[i])]

\* Faulty variant: SendEvent is implemented for the first member only.
ExpandFirstSend(name, events) ==
    <<StructItem(name, events), EventSetImpl(name, events)>>
        \o [i \in 1..(IF events = <<>> THEN 0 ELSE 1) |-> SendEventImpl(name, events[i])]

\* The second arm's transcription: one struct, one EventSet impl, and one
\* SendEvent impl per repetition of $event.
Expand(name, events) ==
    <<StructItem(name, events), EventSetImpl(name, events)>>
        \o [i \in 1..Len(events) |-> SendEventImpl(name, events[i])]

(***************************************************************************)
(* Build results.  A message is the sequence of its words.                 *)
(***************************************************************************)
NotBuilt == [status |-> "none", kind |-> "", message |-> <<>>, items |-> <<>>]
Built(items) == [status |-> "ok", kind |-> "", message |-> <<>>, items |-> items]
Failed(kind, message) ==
    [status |-> "error", kind |-> kind, message |-> message, items |-> <<>>]

\* compile_error!("cannot make an empty event set")
EmptySetMessage == <<"cannot", "make", "an", "empty", "event", "set">>

(***************************************************************************)
(* What the compiler does with the emitted items: a struct that declares   *)
(* the same field twice is rejected (E0124; the repeated SendEvent impl    *)
(* conflicts as well, E0119), and so is a struct that declares the         *)
(* lifetime 'a and has no field using it (E0392).                          *)
(***************************************************************************)
Compile(items) ==
    LET structs == {i \in DOMAIN items : items[i].item = "struct"}
        dup == {i \in structs : HasDuplicate(items[i].body)}
        unused == {i \in structs : items[i].body = <<>>}
    IN  IF dup # {} THEN
            LET i == CHOOSE k \in dup : TRUE
                f == CHOOSE x \in Range(items[i].body) :
                        \E a, b \in DOMAIN items[i].body :
                            a < b /\ items[i].body[a] = x /\ items[i].body[b] = x
            IN  Failed("E0124", <<"field", f, "is", "already", "declared">>)
        ELSE IF unused # {} THEN
            Failed("E0392", <<"parameter", "'a", "is", "never", "used">>)
        ELSE Built(items)

\* Faulty variant: the first arm expands to nothing instead of compile_error!.
EventSetMacroEmptyOk(name, d) ==
    IF d.members = <<>> /\ ~d.trailing
    THEN Built(<<>>)
    ELSE Compile(Expand(name, d.members))

\* Faulty variant: the first arm's message ends with the set's name.
EventSetMacroNamed(name, d) ==
    IF d.members = <<>> /\ ~d.trailing
    THEN Failed("compile_error", Append(EmptySetMessage, name))
    ELSE Compile(Expand(name, d.members))

(***************************************************************************)
(* macro_rules! event_set: the arms are tried in order.  The first matches *)
(* `$name {}` only; everything else of the form goes to the second.        *)
(***************************************************************************)
EventSetMacro(name, d) ==
    IF d.members = <<>> /\ ~d.trailing
    THEN Failed("compile_error", EmptySetMessage)
    ELSE Compile(Expand(name, d.members))

(***************************************************************************)
(* The build.                                                              *)
(***************************************************************************)
RuntimeInit ==
    /\ app = <<>>
    /\ added = <<>>
    /\ ret = <<>>
    /\ inst = "NoInst"
    /\ held = 0
    /\ channels = [t \in EventTypes |-> <<>>]
    /\ sent = <<>>

InitGen ==
    /\ phase = "compile"
    /\ decl = [n \in SetNames |-> NoDecl]
    /\ crate = [n \in SetNames |-> NotBuilt]
    /\ RuntimeInit

\* One event_set! invocation is written and built.
Declare(name, members, trailing) ==
    /\ phase = "compile"
    /\ ~decl[name].written
    /\ decl' = [decl EXCEPT ![name] = Decl(members, trailing)]
    /\ crate' = [crate EXCEPT ![name] = EventSetMacro(name, Decl(members, trailing))]
    /\ UNCHANGED <<phase, app, added, ret, inst, held, channels, sent>>

NextGen ==
    \E name \in SetNames, members \in MemberLists, trailing \in BOOLEAN :
        Declare(name, members, trailing)

SpecGen == InitGen /\ [][NextGen]_vars

(***************************************************************************)
(* The running crate.                                                      *)
(***************************************************************************)
WellFormedLists == {m \in MemberLists : m # <<>> /\ ~HasDuplicate(m)}

\* The crates run: MyEvents over any well-formed member list, and, as in
\* tests::single, possibly a second set MyEvents2 over a single member.
Crates ==
    {d \in [SetNames -> {NoDecl} \cup {Decl(m, FALSE) : m \in WellFormedLists}] :
        /\ d["MyEvents"].written
        /\ Len(d["MyEvents2"].members) <= 1}

\* A crate that compiled: every invocation written in it built.
Init ==
    /\ phase = "build"
    /\ decl \in Crates
    /\ crate = [n \in SetNames |->
                    IF decl[n].written THEN EventSetMacro(n, decl[n]) ELSE NotBuilt]
    /\ \A n \in SetNames : crate[n].status # "error"
    /\ RuntimeInit

ItemsOf(E, kind) ==
    {i \in DOMAIN crate[E].items :
        crate[E].items[i].item = kind /\ crate[E].items[i].name = E}

Fields(E) == crate[E].items[CHOOSE i \in ItemsOf(E, "struct") : TRUE].body

\* AppBuilder::add_event::<T>(), as this crate sees it: one registration call for T.
AddEvent(builder, T) == Append(builder, T)

Registered(builder) == Range(builder)

\* fn apply(app): `$( app.add_event::<$event>(); )*`
RECURSIVE ApplyCalls(_, _)
ApplyCalls(builder, calls) ==
    IF calls = <<>> THEN builder
    ELSE ApplyCalls(AddEvent(builder, calls[1]), Tail(calls))

EventSetApply(builder, E) ==
    ApplyCalls(builder, crate[E].items[CHOOSE i \in ItemsOf(E, "EventSet") : TRUE].body)

\* Faulty variant: add_event_set returns the builder without calling apply.
AddEventSetCallNoApply(builder, E) ==
    [self |-> builder, returned |-> builder]

\* fn add_event_set<E>(&mut self) -> &mut Self { E::apply(self); self }
AddEventSetCall(builder, E) ==
    LET self == EventSetApply(builder, E)
    IN  [self |-> self, returned |-> self]

AddEventSet(E) ==
    /\ phase = "build"
    /\ crate[E].status = "ok"
    /\ Len(added) < MaxAdds
    /\ LET call == AddEventSetCall(app, E)
       IN  /\ app' = call.self
           /\ ret' = call.returned
    /\ added' = Append(added, E)
    /\ UNCHANGED <<phase, decl, crate, inst, held, channels, sent>>

\* The app is run: the builder phase is over and systems are invoked.
Run ==
    /\ phase = "build"
    /\ phase' = "run"
    /\ UNCHANGED <<decl, crate, app, added, ret, inst, held, channels, sent>>

\* Faulty variant: the parameter is built whether or not its resources are there.
InvokeUnchecked(E) ==
    /\ phase = "run"
    /\ inst = "NoInst"
    /\ crate[E].status = "ok"
    /\ inst' = E
    /\ held' = 0
    /\ UNCHANGED <<phase, decl, crate, app, added, ret, channels, sent>>

\* A system with a parameter of type E is invoked.  Each field of E is a
\* ResMut<Events<T>>, a borrow of a resource of the app: the parameter can be
\* built only when every one of these resources is there.
Invoke(E) ==
    /\ phase = "run"
    /\ inst = "NoInst"
    /\ crate[E].status = "ok"
    /\ \A i \in DOMAIN Fields(E) : FieldType(Fields(E)[i]) \in Registered(app)
    /\ inst' = E
    /\ held' = 0
    /\ UNCHANGED <<phase, decl, crate, app, added, ret, channels, sent>>

\* Events<T>::send(value) on the buffer of T
EventsSend(ch, T, value) == [ch EXCEPT ![T] = Append(@, value)]

\* The SendEvent<T> impl the call `events.send(value)` resolves to, by the type of value.
SendImpls(E, T) == {i \in ItemsOf(E, "SendEvent") : crate[E].items[i].event = T}

\* Faulty variant: send forwards the event twice.
EventSetSendTwice(ch, E, value) ==
    LET impl == crate[E].items[CHOOSE i \in SendImpls(E, value.type) : TRUE]
    IN  EventsSend(EventsSend(ch, FieldType(impl.body[1]), value),
                   FieldType(impl.body[1]), value)

\* Faulty variant: every impl forwards to the first field of the struct.
EventSetSendFirstField(ch, E, value) ==
    EventsSend(ch, FieldType(Fields(E)[1]), value)

\* fn send(&mut self, event: $event) { self.$event.send(event) }
EventSetSend(ch, E, value) ==
    LET impl == crate[E].items[CHOOSE i \in SendImpls(E, value.type) : TRUE]
    IN  EventsSend(ch, FieldType(impl.body[1]), value)

Send(value) ==
    /\ phase = "run"
    /\ inst # "NoInst"
    /\ Len(sent) < MaxSends
    /\ SendImpls(inst, value.type) # {}
    /\ channels' = EventSetSend(channels, inst, value)
    /\ sent' = Append(sent, value)
    /\ held' = held + 1
    /\ UNCHANGED <<phase, decl, crate, app, added, ret, inst>>

\* The invocation ends and its event set is dropped.
Return ==
    /\ phase = "run"
    /\ inst # "NoInst"
    /\ inst' = "NoInst"
    /\ held' = 0
    /\ UNCHANGED <<phase, decl, crate, app, added, ret, channels, sent>>

Next ==
    \/ \E E \in SetNames : AddEventSet(E)
    \/ Run
    \/ \E E \in SetNames : Invoke(E)
    \/ \E value \in EventValues : Send(value)
    \/ Return

Spec == Init /\ [][Next]_vars

(***************************************************************************)
(* Steps, as seen from a pair of states.                                   *)
(***************************************************************************)
SendStep == Len(sent') = Len(sent) + 1
AddStep == Len(added') = Len(added) + 1
Empty(n) == decl[n].written /\ decl[n].members = <<>>
EmptyArm(n) == Empty(n) /\ ~decl[n].trailing
Names(message, n) == n \in Range(message)
Count(E, kind) == Cardinality({i \in DOMAIN crate[E].items : crate[E].items[i].item = kind})

(***************************************************************************)
(* C1.  One send(v) through an event set is one Events<T>::send(v) on the  *)
(* buffer of v's type: the buffers after the call are the buffers after a  *)
(* direct send of v on that buffer, nothing duplicated, nothing lost.      *)
(***************************************************************************)
C1_SendIsOnePublish ==
    [][SendStep =>
        LET v == sent'[Len(sent')]
        IN  channels' = EventsSend(channels, v.type, v)]_vars

C1_Witness ==
    /\ inst = "MyEvents"
    /\ sent = <<[type |-> "EventThree", payload |-> 7]>>
    /\ channels["EventThree"] = <<[type |-> "EventThree", payload |-> 7]>>

(***************************************************************************)
(* C2.  Applying an event set declared with members m1..mn issues exactly  *)
(* n add_event calls on the builder, the i-th for mi, and changes nothing  *)
(* else.                                                                   *)
(***************************************************************************)
C2_ApplyRegistersInOrder ==
    [][AddStep =>
        LET E == added'[Len(added')]
        IN  /\ app' = app \o decl[E].members
            /\ Len(app') - Len(app) = Len(decl[E].members)
            /\ UNCHANGED <<phase, decl, crate, inst, held, channels, sent>>]_vars

C2_Witness ==
    /\ added = <<"MyEvents">>
    /\ decl["MyEvents"].members = <<"EventThree", "EventOne", "EventTwo">>
    /\ app = <<"EventThree", "EventOne", "EventTwo">>

C4_EmptySetRejected ==
    \A n \in SetNames :
        Empty(n) => crate[n].status = "error" /\ crate[n].items = <<>>

C4_Witness ==
    /\ decl["MyEvents"] = Decl(<<>>, FALSE)
    /\ decl["MyEvents2"] = Decl(<<>>, FALSE)
    /\ \A n \in SetNames : crate[n].kind = "compile_error"

(***************************************************************************)
(* C5 as stated: the message of the error for an empty member list names   *)
(* the set, so two empty sets with different names get different messages. *)
(***************************************************************************)
C5_EmptyMessageNamesSet ==
    \A n \in SetNames :
        EmptyArm(n) =>
            /\ Names(crate[n].message, n)
            /\ \A o \in SetNames \ {n} :
                    EmptyArm(o) => crate[o].message # crate[n].message

(***************************************************************************)
(* C5 amended.  The error for `name {}` carries the fixed message "cannot  *)
(* make an empty event set", which does not contain the set's name: two    *)
(* empty sets with different names get the same message.                   *)
(***************************************************************************)
C5_EmptyMessageIsFixed ==
    \A n \in SetNames :
        EmptyArm(n) =>
            /\ crate[n].kind = "compile_error"
            /\ crate[n].message = EmptySetMessage
            /\ ~Names(crate[n].message, n)
            /\ \A o \in SetNames : EmptyArm(o) => crate[o].message = crate[n].message

C5_Witness ==
    /\ EmptyArm("MyEvents")
    /\ EmptyArm("MyEvents2")
    /\ crate["MyEvents"].message = crate["MyEvents2"].message
    /\ crate["MyEvents"].status = "error"

(***************************************************************************)
(* C6.  An invocation whose member list repeats an identifier fails to     *)
(* build and leaves no struct: the repetition is never accepted as one     *)
(* field or as a shadowed field.                                           *)
(***************************************************************************)
C6_DuplicateRejected ==
    \A n \in SetNames :
        decl[n].written /\ HasDuplicate(decl[n].members) =>
            crate[n].status = "error" /\ crate[n].items = <<>>

C6_Witness ==
    /\ decl["MyEvents"].members = <<"EventOne", "EventOne">>
    /\ crate["MyEvents"].kind = "E0124"
    /\ crate["MyEvents"].items = <<>>

(***************************************************************************)
(* C7.  An invocation with a non-empty member list without repetition      *)
(* builds, and yields exactly one struct, with one field per member, in    *)
(* order, exactly one EventSet impl, and exactly one SendEvent<T> impl for *)
(* each member T and none for any other type.                              *)
(***************************************************************************)
C7_WellFormedSetBuilds ==
    \A n \in SetNames :
        decl[n].written /\ decl[n].members # <<>> /\ ~HasDuplicate(decl[n].members) =>
            /\ crate[n].status = "ok"
            /\ Count(n, "struct") = 1
            /\ Cardinality(ItemsOf(n, "struct")) = 1
            /\ Fields(n) = decl[n].members
            /\ Count(n, "EventSet") = 1
            /\ Cardinality(ItemsOf(n, "EventSet")) = 1
            /\ Len(crate[n].items) = 2 + Len(decl[n].members)
            /\ \A t \in EventTypes :
                    Cardinality(SendImpls(n, t)) =
                        IF t \in Range(decl[n].members) THEN 1 ELSE 0

C7_Witness ==
    /\ decl["MyEvents"].members = <<"EventTwo", "EventOne">>
    /\ decl["MyEvents2"].members = <<"EventOne">>
    /\ crate["MyEvents"].status = "ok"
    /\ crate["MyEvents2"].status = "ok"
    /\ Len(crate["MyEvents"].items) = 4

(***************************************************************************)
(* C9.  add_event_set::<E>() leaves the builder as one E::apply on it      *)
(* leaves it, changes nothing else, and returns the builder it was called  *)
(* on.                                                                     *)
(***************************************************************************)
C9_AddEventSetDelegates ==
    [][AddStep =>
        LET E == added'[Len(added')]
        IN  /\ app' = EventSetApply(app, E)
            /\ ret' = app'
            /\ added' = Append(added, E)
            /\ UNCHANGED <<phase, decl, crate, inst, held, channels, sent>>]_vars

C9_Witness ==
    /\ added = <<"MyEvents">>
    /\ decl["MyEvents"].members = <<"EventOne">>
    /\ app = <<"EventOne">>
    /\ ret = app

(***************************************************************************)
(* C10.  Whatever is sent through event sets, the buffer of each type      *)
(* holds exactly the values of that type that were sent, in the order      *)
(* sent; a send changes the buffer of the value's type only, and not the   *)
(* builder.  Sending EventOne, EventTwo and EventThree(42) through one     *)
(* MyEvents { EventOne, EventTwo, EventThree } gives three sends, one per  *)
(* buffer, the third with payload 42.                                      *)
(***************************************************************************)
C10_ChannelsHoldOwnValuesInOrder ==
    /\ [](\A t \in EventTypes : channels[t] = SelectType(sent, t))
    /\ [][SendStep =>
            /\ \A t \in EventTypes \ {sent'[Len(sent')].type} : channels'[t] = channels[t]
            /\ UNCHANGED <<phase, decl, crate, app, added, ret, inst>>]_vars

C10_Witness ==
    /\ decl["MyEvents"].members = <<"EventOne", "EventTwo", "EventThree">>
    /\ inst = "MyEvents"
    /\ held = 3
    /\ sent = <<[type |-> "EventOne", payload |-> Unit],
                [type |-> "EventTwo", payload |-> Unit],
                [type |-> "EventThree", payload |-> FortyTwo]>>
    /\ channels["EventOne"] = <<[type |-> "EventOne", payload |-> Unit]>>
    /\ channels["EventTwo"] = <<[type |-> "EventTwo", payload |-> Unit]>>
    /\ channels["EventThree"] = <<[type |-> "EventThree", payload |-> FortyTwo]>>

====
